---- MODULE Spec2Model ----
(***************************************************************************)
(* Model of the USD stage cache of usd-mcp (server/stage_manager.py) and   *)
(* of the path validation it relies on (server/utils/validation.py).       *)
(*                                                                         *)
(* A raw path is a sequence of components, a component a sequence of       *)
(* characters; an absolute path starts with the component Root.  The file  *)
(* system, the scene engine (Usd.Stage.Open, stage truthiness,             *)
(* GetRootLayer) and the callers are the environment.                      *)
(***************************************************************************)
EXTENDS Integers, Sequences, FiniteSets, TLC

\* ------------------------------------------------------------------ bounds
\* Engine opens (Usd.Stage.Open invocations) in one behaviour.
MaxOpens == 2

\* The largest number of prims of a stage, the pseudo-root included.
MaxPrims == 5

\* The largest depth limit asked for.
MaxDepth == 3

\* ------------------------------------------------------------------- paths
Root == <<"/">>
Dot == <<".">>
DotDot == <<".", ".">>

\* Current working directory of the server process.
Cwd == <<Root, <<"w">>>>

\* File names: a.usda, c.txt, g.txt (no such file), the directory d.usdz,
\* and L.USD, a symbolic link to c.txt.
N_a_usda == <<"a", ".", "u", "s", "d", "a">>
N_c_txt == <<"c", ".", "t", "x", "t">>
N_L_USD == <<"L", ".", "U", "S", "D">>
N_g_txt == <<"g", ".", "t", "x", "t">>
N_d_usdz == <<"d", ".", "u", "s", "d", "z">>

\* The empty string.
EmptyPath == << >>

\* The raw paths callers pass.
RawPaths ==
    { EmptyPath,
      <<N_a_usda>>,
      <<Root, <<"w">>, DotDot, <<"w">>, Dot, N_a_usda>>,
      <<N_L_USD>>,
      <<N_c_txt>>,
      <<N_g_txt>>,
      <<N_d_usdz>> }

\* Symbolic links of the file system: L.USD points at c.txt.
SymlinkTarget(abs) ==
    IF abs = Cwd \o <<N_L_USD>> THEN Cwd \o <<N_c_txt>> ELSE abs

RECURSIVE Collapse(_, _)
\* Lexical part of Path.resolve: "." is dropped, ".." pops one component
\* (never the root).
Collapse(parts, acc) ==
    IF parts = << >> THEN acc
    ELSE LET h == Head(parts)
             t == Tail(parts)
         IN  IF h = Dot THEN Collapse(t, acc)
             ELSE IF h = DotDot
                  THEN Collapse(t, IF Len(acc) > 1
                                   THEN SubSeq(acc, 1, Len(acc) - 1)
                                   ELSE acc)
                  ELSE Collapse(t, Append(acc, h))

\* str(Path(file_path).resolve()): absolute, normalised, links followed.
\* Path("") is ".", which resolves to the working directory.
PathResolve(file_path) ==
    LET abs == IF file_path # << >> /\ Head(file_path) = Root
               THEN Tail(file_path)
               ELSE Tail(Cwd) \o file_path
    IN  SymlinkTarget(Collapse(abs, <<Root>>))

\* PathResolve of every raw path, computed once.
ResolveTable == [p \in RawPaths |-> PathResolve(p)]

\* str(Path(file_path).resolve()) of a raw path.
Resolve(file_path) == ResolveTable[file_path]

\* The canonical locations the raw paths denote.
CanonPaths == { Resolve(p) : p \in RawPaths }

\* Locations whose state on disk never changes in the model (directories).
Directories == { Cwd, Cwd \o <<N_d_usdz>> }

\* Locations that hold a file throughout.
StaticFiles == { Cwd \o <<N_c_txt>> }

\* Locations whose file the environment creates, deletes and locks.
FilePaths == { Cwd \o <<N_a_usda>> }

RECURSIVE NoDots(_)
\* Path(file_path) drops "." components when it parses the string.
NoDots(parts) ==
    IF parts = << >> THEN << >>
    ELSE IF Head(parts) = Dot THEN NoDots(Tail(parts))
         ELSE <<Head(parts)>> \o NoDots(Tail(parts))

\* Path(file_path).name: the final component, empty for the root.
PathName(file_path) ==
    LET parts == NoDots(file_path)
    IN  IF parts = << >> \/ parts[Len(parts)] = Root THEN << >>
        ELSE parts[Len(parts)]

\* str.rfind('.') on a name, 1-based; 0 when there is no dot.
RFindDot(name) ==
    LET dots == { i \in 1..Len(name) : name[i] = "." }
    IN  IF dots = {} THEN 0 ELSE CHOOSE i \in dots : \A j \in dots : j <= i

\* Path(file_path).suffix: from the last dot of the name, provided the dot
\* is neither the first nor the last character.
PathSuffix(file_path) ==
    LET name == PathName(file_path)
        i == RFindDot(name)
    IN  IF 1 < i /\ i < Len(name) THEN SubSeq(name, i, Len(name)) ELSE << >>

\* str.lower() on one character.
LowerChar(ch) ==
    CASE ch = "A" -> "a" [] ch = "B" -> "b" [] ch = "C" -> "c"
      [] ch = "D" -> "d" [] ch = "S" -> "s" [] ch = "T" -> "t"
      [] ch = "U" -> "u" [] ch = "X" -> "x" [] ch = "Z" -> "z"
      [] OTHER -> ch

\* str.lower().
Lower(s) == [i \in 1..Len(s) |-> LowerChar(s[i])]

\* path.suffix.lower() of every raw path, computed once.
SuffixTable == [p \in RawPaths |-> Lower(PathSuffix(p))]

\* Variant of LowerSuffix: the suffix is compared as written.
LowerSuffix_asis(file_path) == PathSuffix(file_path)

\* Path(file_path).suffix.lower() of a raw path.
LowerSuffix(file_path) == SuffixTable[file_path]

\* ------------------------------------------------------------------- state
VARIABLES
    _stage_cache,   \* USDStageManager._stage_cache: canonical path -> handle
    fs,             \* file system: location -> "none", "file", "locked"
    expired,        \* cached handles that have become falsy (expired stage)
    nolayer,        \* cached handles that are truthy but whose
                    \* GetRootLayer() is falsy
    opens,          \* Usd.Stage.Open invocations so far
    last,           \* the most recent call and what it returned
    removedSince,   \* location -> handle removed by a remove() that returned
                    \* True, 0 once a later load of the location succeeded
    failedSince,    \* locations whose most recent engine open failed
    pc,             \* concurrent callers: caller -> the line of load_stage it
                    \* executes next, "idle", "done" or "raised"
    frame,          \* concurrent callers: caller -> the locals of its call
    tool,           \* tool layer: the most recent tool call and its result
    hier,           \* hierarchy formatting: the most recent tree, depth
                    \* limit, hierarchy node and text
    client          \* USDMCPClient: its session, the files on its side, the
                    \* tool calls it has sent and its most recent call

vars == <<_stage_cache, fs, expired, nolayer, opens, last, removedSince,
          failedSince, pc, frame, tool, hier, client>>

\* The state of the layers around the stage manager.
layerVars == <<tool, hier, client>>

\* The state of the concurrent callers.
raceVars == <<pc, frame>>

\* The state only sequential calls touch.
seqVars == <<fs, nolayer, last, removedSince, failedSince>>

\* None as a stage.
NoStage == 0

\* Handles the engine hands out: the n-th open returns handle n.
Handles == 1..MaxOpens

\* A string result: fixed text followed by an interpolated value.
Str(text, arg) == [isNone |-> FALSE, text |-> text, arg |-> arg]

\* None as an error message.
NoneMsg == [isNone |-> TRUE, text |-> "", arg |-> << >>]

\* The empty string "".
EmptyStr == Str("", << >>)

\* str(e) of the exception the engine raises.
EngineExcText == <<<<"e", "r", "r">>>>

\* The empty dictionary.
EmptyCache == [k \in {} |-> NoStage]

\* ------------------------------------------------------------- file system
\* What the operating system finds at the location a path resolves to.
KindOf(file_path) ==
    LET loc == Resolve(file_path)
    IN  IF loc \in Directories THEN "dir"
        ELSE IF loc \in StaticFiles THEN "file"
        ELSE IF loc \in DOMAIN fs THEN fs[loc] ELSE "none"

\* Path.exists()
PathExists(file_path) == KindOf(file_path) # "none"

\* Path.is_file()
PathIsFile(file_path) == KindOf(file_path) \in {"file", "locked"}

\* os.access(path, os.R_OK)
AccessRead(file_path) == KindOf(file_path) \in {"file", "dir"}

\* ---------------------------------------------------------- validation.py
valid_extensions ==
    { <<".", "u", "s", "d">>, <<".", "u", "s", "d", "a">>,
      <<".", "u", "s", "d", "c">>, <<".", "u", "s", "d", "z">> }

\* Variant of validate_file_path: the extension is not checked.
validate_file_path_noext(file_path) ==
    IF file_path = EmptyPath
    THEN <<FALSE, Str("File path cannot be empty", << >>)>>
    ELSE IF ~PathExists(file_path)
    THEN <<FALSE, Str("File does not exist: ", file_path)>>
    ELSE IF ~PathIsFile(file_path)
    THEN <<FALSE, Str("Path is not a file: ", file_path)>>
    ELSE IF ~AccessRead(file_path)
    THEN <<FALSE, Str("File is not readable: ", file_path)>>
    ELSE <<TRUE, EmptyStr>>

\* Variant of validate_file_path: the extension is checked first.
validate_file_path_extfirst(file_path) ==
    IF file_path = EmptyPath
    THEN <<FALSE, Str("File path cannot be empty", << >>)>>
    ELSE IF LowerSuffix(file_path) \notin valid_extensions
    THEN <<FALSE, Str("File does not have a valid USD extension: ", file_path)>>
    ELSE IF ~PathExists(file_path)
    THEN <<FALSE, Str("File does not exist: ", file_path)>>
    ELSE IF ~PathIsFile(file_path)
    THEN <<FALSE, Str("Path is not a file: ", file_path)>>
    ELSE IF ~AccessRead(file_path)
    THEN <<FALSE, Str("File is not readable: ", file_path)>>
    ELSE <<TRUE, EmptyStr>>

\* validate_file_path: (is_valid, error_message)
validate_file_path(file_path) ==
    IF file_path = EmptyPath
    THEN <<FALSE, Str("File path cannot be empty", << >>)>>
    ELSE IF ~PathExists(file_path)
    THEN <<FALSE, Str("File does not exist: ", file_path)>>
    ELSE IF ~PathIsFile(file_path)
    THEN <<FALSE, Str("Path is not a file: ", file_path)>>
    ELSE IF ~AccessRead(file_path)
    THEN <<FALSE, Str("File is not readable: ", file_path)>>
    ELSE IF LowerSuffix(file_path) \notin valid_extensions
    THEN <<FALSE, Str("File does not have a valid USD extension: ", file_path)>>
    ELSE <<TRUE, EmptyStr>>

\* ------------------------------------------------------------------ engine
\* bool(stage): None and an expired stage are falsy.
Truthy(stage) == stage # NoStage /\ stage \notin expired

\* bool(stage.GetRootLayer())
HasRootLayer(stage) == stage \notin nolayer

\* What Usd.Stage.Open can do: return a fresh stage, return a falsy stage,
\* or raise.
OpenOutcomes == {"ok", "falsy", "raise"}

\* The handle a successful open returns: independent of every earlier one.
FreshHandle == opens + 1

\* ------------------------------------------------------- stage_manager.py
\* Variant of NormalizedPath: the raw path is the key, unresolved.
NormalizedPath_raw(file_path) == file_path

\* Variant of NormalizedPath: Path.absolute(), which prepends the working
\* directory and resolves nothing.
NormalizedPath_absolute(file_path) ==
    IF file_path # << >> /\ Head(file_path) = Root
    THEN file_path
    ELSE Cwd \o file_path

\* Line 34: the cache key of a path.
NormalizedPath(file_path) == Resolve(file_path)

\* Variant of StageStillValid: the root layer is not asked for.
StageStillValid_truthy(stage) == Truthy(stage)

\* The test of line 40: stage and stage.GetRootLayer()
StageStillValid(stage) == Truthy(stage) /\ HasRootLayer(stage)

\* dict without one key (del d[k]).
Without(cache, key) == [k \in DOMAIN cache \ {key} |-> cache[k]]

\* dict with one key set (d[k] = v).
With(cache, key, value) ==
    [k \in DOMAIN cache \cup {key} |-> IF k = key THEN value ELSE cache[k]]

\* A result of load_stage: the pair returned, the cache it leaves, the
\* number of engine opens it made and whether an exception left the call.
LoadResult(stage, err, cache, opened, raised) ==
    [stage |-> stage, err |-> err, cache |-> cache, opened |-> opened,
     raised |-> raised]

\* Variant of CheckCache: the test of line 40 negated.
CheckCache_inverted(cache, normalized_path) ==
    IF normalized_path \in DOMAIN cache
    THEN LET stage == cache[normalized_path]
         IN  IF ~StageStillValid(stage)
             THEN [hit |-> TRUE, stage |-> stage, cache |-> cache]
             ELSE [hit |-> FALSE, stage |-> NoStage,
                   cache |-> Without(cache, normalized_path)]
    ELSE [hit |-> FALSE, stage |-> NoStage, cache |-> cache]

\* Variant of CheckCache: the del of line 44 left out.
CheckCache_noevict(cache, normalized_path) ==
    IF normalized_path \in DOMAIN cache
    THEN LET stage == cache[normalized_path]
         IN  IF StageStillValid(stage)
             THEN [hit |-> TRUE, stage |-> stage, cache |-> cache]
             ELSE [hit |-> FALSE, stage |-> NoStage, cache |-> cache]
    ELSE [hit |-> FALSE, stage |-> NoStage, cache |-> cache]

\* Variant of CheckCache: the cached stage is never used, the file is opened
\* again on every call.
CheckCache_alwaysmiss(cache, normalized_path) ==
    [hit |-> FALSE, stage |-> NoStage, cache |-> cache]

\* Lines 36-44: the cache check.  hit: the cached stage is returned;
\* otherwise cache is the dictionary the open continues with.
CheckCache(cache, normalized_path) ==
    IF normalized_path \in DOMAIN cache
    THEN LET stage == cache[normalized_path]
         IN  IF StageStillValid(stage)
             THEN [hit |-> TRUE, stage |-> stage, cache |-> cache]
             ELSE [hit |-> FALSE, stage |-> NoStage,
                   cache |-> Without(cache, normalized_path)]
    ELSE [hit |-> FALSE, stage |-> NoStage, cache |-> cache]

\* Variant of OpenAndStore: the stage is stored before it is tested.
OpenAndStore_storefirst(cache, normalized_path, file_path, outcome) ==
    CASE outcome = "raise" ->
           LoadResult(NoStage, Str("Error loading USD stage: ", EngineExcText),
                      cache, 1, FALSE)
      [] outcome = "falsy" ->
           LoadResult(NoStage, Str("Failed to open USD stage: ", file_path),
                      With(cache, normalized_path, NoStage), 1, FALSE)
      [] OTHER ->
           LoadResult(FreshHandle, NoneMsg,
                      With(cache, normalized_path, FreshHandle), 1, FALSE)

\* Variant of OpenAndStore: a falsy stage is asked for a second time.
OpenAndStore_retry(cache, normalized_path, file_path, outcome) ==
    CASE outcome = "raise" ->
           LoadResult(NoStage, Str("Error loading USD stage: ", EngineExcText),
                      cache, 1, FALSE)
      [] outcome = "falsy" ->
           LoadResult(NoStage, Str("Failed to open USD stage: ", file_path),
                      cache, 2, FALSE)
      [] OTHER ->
           LoadResult(FreshHandle, NoneMsg,
                      With(cache, normalized_path, FreshHandle), 1, FALSE)

\* Variant of OpenAndStore: no except clause, the exception leaves the call.
OpenAndStore_noexcept(cache, normalized_path, file_path, outcome) ==
    CASE outcome = "raise" ->
           LoadResult(NoStage, NoneMsg, cache, 1, TRUE)
      [] outcome = "falsy" ->
           LoadResult(NoStage, Str("Failed to open USD stage: ", file_path),
                      cache, 1, FALSE)
      [] OTHER ->
           LoadResult(FreshHandle, NoneMsg,
                      With(cache, normalized_path, FreshHandle), 1, FALSE)

\* Variant of OpenAndStore: the cache keeps one stage, the latest.
OpenAndStore_single(cache, normalized_path, file_path, outcome) ==
    CASE outcome = "raise" ->
           LoadResult(NoStage, Str("Error loading USD stage: ", EngineExcText),
                      cache, 1, FALSE)
      [] outcome = "falsy" ->
           LoadResult(NoStage, Str("Failed to open USD stage: ", file_path),
                      cache, 1, FALSE)
      [] OTHER ->
           LoadResult(FreshHandle, NoneMsg,
                      With(EmptyCache, normalized_path, FreshHandle), 1, FALSE)

\* Lines 46-57: one Usd.Stage.Open inside try/except.
OpenAndStore(cache, normalized_path, file_path, outcome) ==
    CASE outcome = "raise" ->
           LoadResult(NoStage, Str("Error loading USD stage: ", EngineExcText),
                      cache, 1, FALSE)
      [] outcome = "falsy" ->
           LoadResult(NoStage, Str("Failed to open USD stage: ", file_path),
                      cache, 1, FALSE)
      [] OTHER ->
           LoadResult(FreshHandle, NoneMsg,
                      With(cache, normalized_path, FreshHandle), 1, FALSE)

\* USDStageManager.load_stage
\* Variant of load_stage: the cache is looked up before the path is
\* validated.
load_stage_cachefirst(file_path, outcome) ==
    LET normalized_path == NormalizedPath(file_path)
        c == CheckCache(_stage_cache, normalized_path)
        v == validate_file_path(file_path)
    IN  IF c.hit
        THEN LoadResult(c.stage, NoneMsg, c.cache, 0, FALSE)
        ELSE IF ~v[1]
        THEN LoadResult(NoStage, v[2], _stage_cache, 0, FALSE)
        ELSE OpenAndStore(c.cache, normalized_path, file_path, outcome)

load_stage(file_path, outcome) ==
    LET v == validate_file_path(file_path)
    IN  IF ~v[1]
        THEN LoadResult(NoStage, v[2], _stage_cache, 0, FALSE)
        ELSE LET normalized_path == NormalizedPath(file_path)
                 c == CheckCache(_stage_cache, normalized_path)
             IN  IF c.hit
                 THEN LoadResult(c.stage, NoneMsg, c.cache, 0, FALSE)
                 ELSE OpenAndStore(c.cache, normalized_path, file_path, outcome)

\* Variant of get_cached_stage: the path is looked up as given.
get_cached_stage_raw(file_path) ==
    IF file_path \in DOMAIN _stage_cache
    THEN _stage_cache[file_path]
    ELSE NoStage

\* USDStageManager.get_cached_stage: dict.get, None when absent.
get_cached_stage(file_path) ==
    LET normalized_path == Resolve(file_path)
    IN  IF normalized_path \in DOMAIN _stage_cache
        THEN _stage_cache[normalized_path]
        ELSE NoStage

\* Variant of clear_cache: only the entries that fail the test of line 40
\* are dropped.
clear_cache_invalid ==
    [k \in { k \in DOMAIN _stage_cache : StageStillValid(_stage_cache[k]) }
        |-> _stage_cache[k]]

\* USDStageManager.clear_cache: the dictionary after clear().
clear_cache == EmptyCache

\* Variant of remove_from_cache: True is returned, the entry is kept.
remove_from_cache_keep(file_path) ==
    LET normalized_path == Resolve(file_path)
    IN  IF normalized_path \in DOMAIN _stage_cache
        THEN [removed |-> TRUE, cache |-> _stage_cache]
        ELSE [removed |-> FALSE, cache |-> _stage_cache]

\* Variant of remove_from_cache: the path is looked up as given.
remove_from_cache_raw(file_path) ==
    IF file_path \in DOMAIN _stage_cache
    THEN [removed |-> TRUE, cache |-> Without(_stage_cache, file_path)]
    ELSE [removed |-> FALSE, cache |-> _stage_cache]

\* Variant of remove_from_cache: a path that fails validation removes
\* nothing.
remove_from_cache_validated(file_path) ==
    LET normalized_path == Resolve(file_path)
    IN  IF validate_file_path(file_path)[1]
           /\ normalized_path \in DOMAIN _stage_cache
        THEN [removed |-> TRUE, cache |-> Without(_stage_cache, normalized_path)]
        ELSE [removed |-> FALSE, cache |-> _stage_cache]

\* USDStageManager.remove_from_cache: the value returned and the dictionary
\* the call leaves.
remove_from_cache(file_path) ==
    LET normalized_path == Resolve(file_path)
    IN  IF normalized_path \in DOMAIN _stage_cache
        THEN [removed |-> TRUE, cache |-> Without(_stage_cache, normalized_path)]
        ELSE [removed |-> FALSE, cache |-> _stage_cache]

\* Variant of get_cache_info: entries that fail the test are left out.
get_cache_info_skip ==
    [path \in { k \in DOMAIN _stage_cache : StageStillValid(_stage_cache[k]) }
        |-> [is_valid |-> TRUE, root_layer |-> path, error |-> ""]]

\* USDStageManager.get_cache_info: one record per cached path.
get_cache_info ==
    [path \in DOMAIN _stage_cache |->
        IF StageStillValid(_stage_cache[path])
        THEN [is_valid |-> TRUE, root_layer |-> path, error |-> ""]
        ELSE [is_valid |-> FALSE, root_layer |-> << >>,
              error |-> "Invalid stage in cache"]]

\* ------------------------------------------------ what the callers observe
\* A handle a caller can use: truthy and with a resolvable root layer.
Usable(stage) ==
    stage # NoStage /\ stage \notin expired /\ stage \notin nolayer

\* The state of the entry of a location: "absent", "usable" or "unusable".
EntryState(cache, loc) ==
    IF loc \notin DOMAIN cache THEN "absent"
    ELSE IF Usable(cache[loc]) THEN "usable" ELSE "unusable"

\* The four scene-file suffixes.
SceneSuffixes ==
    { <<".", "u", "s", "d">>, <<".", "u", "s", "d", "a">>,
      <<".", "u", "s", "d", "c">>, <<".", "u", "s", "d", "z">> }

\* The raw paths whose suffix is a scene-file suffix in any letter case.
Recognized == { p \in RawPaths : Lower(PathSuffix(p)) \in SceneSuffixes }

\* Why a path is not acceptable to load, "" when it is.
Rejection(file_path) ==
    LET kind == KindOf(file_path)
    IN  IF file_path = EmptyPath THEN "empty"
        ELSE IF kind = "none" THEN "nonexistent"
        ELSE IF kind = "dir" THEN "notfile"
        ELSE IF kind = "locked" THEN "unreadable"
        ELSE IF file_path \notin Recognized THEN "extension"
        ELSE ""

\* The call before was a load that returned a stage, and file_path has its
\* canonical location.
Repeats(op, file_path) ==
    /\ op = "load"
    /\ last.op = "load"
    /\ last.stage # NoStage
    /\ Resolve(last.path) = Resolve(file_path)

\* The record of a call: its operation and argument, what it returned
\* (after: the cache it leaves), and what held when it was made.
\*   pre, entry   the cache before the call, and the state of the entry of
\*                the path's location in it; opensBefore: the engine opens
\*                made before the call
\*   left         the state of that entry when the call returns
\*   unusable     the keys whose handle was unusable (kept for cache_info)
\*   again        "path" / "loc": the call before was a load that returned
\*                a stage, of the same raw path / of another raw path with
\*                the same location; prevStage, prevOpened, prevEntry: what
\*                it returned, the opens it made and the entry it found;
\*                prevUsable: its stage is still usable; quiet: the
\*                environment has not acted in between
\*   disturbed    the environment has acted since the call (kept for a
\*                load that returned a stage)
CallRecord(op, file_path, r, after) ==
    [op |-> op,
     path |-> file_path,
     stage |-> r.stage,
     err |-> r.err,
     opened |-> r.opened,
     raised |-> r.raised,
     removed |-> r.removed,
     info |-> r.info,
     outcome |-> r.outcome,
     pre |-> _stage_cache,
     opensBefore |-> opens,
     rejection |-> Rejection(file_path),
     entry |-> EntryState(_stage_cache, Resolve(file_path)),
     left |-> EntryState(after, Resolve(file_path)),
     unusable |-> IF op = "info"
                  THEN { k \in DOMAIN _stage_cache : ~Usable(_stage_cache[k]) }
                  ELSE {},
     usable |-> Usable(r.stage),
     preRemoved |-> removedSince[Resolve(file_path)],
     preFailed |-> Resolve(file_path) \in failedSince,
     again |-> IF Repeats(op, file_path)
               THEN IF last.path = file_path THEN "path" ELSE "loc"
               ELSE "",
     prevStage |-> IF Repeats(op, file_path) THEN last.stage ELSE NoStage,
     prevOpened |-> IF Repeats(op, file_path) THEN last.opened ELSE 0,
     prevEntry |-> IF Repeats(op, file_path) THEN last.entry ELSE "",
     prevUsable |-> Repeats(op, file_path) /\ Usable(last.stage),
     quiet |-> Repeats(op, file_path) /\ ~last.disturbed,
     disturbed |-> FALSE]

\* The part of a call record an operation does not fill.
NoResult ==
    [stage |-> NoStage, err |-> NoneMsg, opened |-> 0, raised |-> FALSE,
     removed |-> FALSE, info |-> EmptyCache, outcome |-> ""]

\* The handles a dictionary holds.
HandlesOf(cache) == { cache[k] : k \in DOMAIN cache }

\* ------------------------------------------------------------------ actions
\* No tool call yet.
NoTool ==
    [name |-> "", via |-> "", params |-> EmptyCache, arguments |-> EmptyCache,
     kind |-> "return", blocks |-> << >>, exc |-> "",
     reply |-> [type |-> "text", text |-> EmptyStr, body |-> << >>],
     load |-> [stage |-> NoStage, opened |-> 0, called |-> FALSE,
               outcome |-> ""],
     pre |-> EmptyCache, opensBefore |-> 0, loc |-> EmptyPath,
     entry |-> "absent", stale |-> {}, rejection |-> "", prev |-> ""]

\* No hierarchy formatted yet.
NoHier ==
    [called |-> FALSE, tree |-> <<0>>, max_depth |-> -1, hierarchy |-> << >>,
     text |-> << >>]

\* A client just constructed: no session, no script path, nothing sent.
NoClient ==
    [session |-> FALSE, server_script_path |-> << >>, closed |-> FALSE,
     sent |-> << >>, method |-> "", args |-> << >>,
     exc |-> [type |-> "", text |-> ""],
     sessionBefore |-> FALSE, sentBefore |-> << >>]

\* The callers that may run load_stage at the same time.
Callers == {"A", "B"}

\* The locals of load_stage before a call: file_path, normalized_path,
\* stage, the error returned, whether the engine was asked, and the handle
\* the store of line 53 found under the key.
NoFrame ==
    [file_path |-> EmptyPath, normalized_path |-> EmptyPath,
     stage |-> NoStage, err |-> NoneMsg, opened |-> 0, overwrote |-> NoStage]

Init ==
    /\ _stage_cache = EmptyCache
    /\ fs = [loc \in FilePaths |-> "file"]
    /\ expired = {}
    /\ nolayer = {}
    /\ opens = 0
    /\ last = NoResult @@
              [op |-> "none", path |-> EmptyPath, pre |-> EmptyCache,
               opensBefore |-> 0,
               rejection |-> "", entry |-> "absent", left |-> "absent",
               unusable |-> {}, usable |-> FALSE,
               prevStage |-> NoStage, prevOpened |-> 0, prevEntry |-> "",
               prevUsable |-> FALSE,
               preRemoved |-> NoStage, preFailed |-> FALSE,
               again |-> "", quiet |-> FALSE, disturbed |-> FALSE]
    /\ removedSince = [loc \in CanonPaths |-> NoStage]
    /\ failedSince = {}
    /\ pc = [c \in Callers |-> "idle"]
    /\ frame = [c \in Callers |-> NoFrame]
    /\ tool = NoTool
    /\ hier = NoHier
    /\ client = NoClient

\* The cache owns its stages: a stage no entry refers to any more is
\* released, and its condition is forgotten.
Release(cache) ==
    /\ expired' = expired \cap HandlesOf(cache)
    /\ nolayer' = nolayer \cap HandlesOf(cache)

\* A caller calls load_stage(file_path); the engine, if asked, answers with
\* outcome.
Load(file_path, outcome) ==
    LET r == load_stage(file_path, outcome)
        loc == Resolve(file_path)
    IN  /\ opens + r.opened <= MaxOpens
        /\ r.opened = 0 => outcome = "ok"
        /\ _stage_cache' = r.cache
        /\ opens' = opens + r.opened
        /\ last' = CallRecord("load", file_path,
                              [NoResult EXCEPT !.stage = r.stage,
                                               !.err = r.err,
                                               !.opened = r.opened,
                                               !.raised = r.raised,
                                               !.outcome = IF r.opened = 0 THEN ""
                                                           ELSE outcome],
                              r.cache)
        /\ removedSince' = IF r.stage # NoStage
                           THEN [removedSince EXCEPT ![loc] = NoStage]
                           ELSE removedSince
        /\ failedSince' = IF r.opened > 0 /\ r.stage = NoStage
                          THEN failedSince \cup {loc}
                          ELSE IF r.stage # NoStage THEN failedSince \ {loc}
                          ELSE failedSince
        /\ Release(r.cache)
        /\ UNCHANGED fs
        /\ UNCHANGED <<raceVars, layerVars>>

\* A caller calls get_cached_stage(file_path).
GetCached(file_path) ==
    /\ last' = CallRecord("get_cached", file_path,
                          [NoResult EXCEPT !.stage = get_cached_stage(file_path)],
                          _stage_cache)
    /\ UNCHANGED <<_stage_cache, fs, expired, nolayer, opens, removedSince,
                   failedSince>>
    /\ UNCHANGED <<raceVars, layerVars>>

\* A caller calls clear_cache().
Clear ==
    /\ _stage_cache' = clear_cache
    /\ last' = CallRecord("clear", EmptyPath, NoResult, clear_cache)
    /\ Release(clear_cache)
    /\ UNCHANGED <<fs, opens, removedSince, failedSince>>
    /\ UNCHANGED <<raceVars, layerVars>>

\* A caller calls remove_from_cache(file_path).
Remove(file_path) ==
    LET r == remove_from_cache(file_path)
        loc == Resolve(file_path)
    IN  /\ _stage_cache' = r.cache
        /\ last' = CallRecord("remove", file_path,
                              [NoResult EXCEPT !.removed = r.removed], r.cache)
        /\ removedSince' = IF r.removed /\ loc \in DOMAIN _stage_cache
                           THEN [removedSince EXCEPT ![loc] = _stage_cache[loc]]
                           ELSE removedSince
        /\ Release(r.cache)
        /\ UNCHANGED <<fs, opens, failedSince>>
        /\ UNCHANGED <<raceVars, layerVars>>

\* A caller calls get_cache_info().
CacheInfo ==
    /\ last' = CallRecord("info", EmptyPath,
                          [NoResult EXCEPT !.info = get_cache_info],
                          _stage_cache)
    /\ UNCHANGED <<_stage_cache, fs, expired, nolayer, opens, removedSince,
                   failedSince>>
    /\ UNCHANGED <<raceVars, layerVars>>

\* The environment acts after a load that returned a stage.
Disturb ==
    last' = IF last.op = "load" /\ last.stage # NoStage
            THEN [last EXCEPT !.disturbed = TRUE]
            ELSE last

\* Environment: a cached stage expires (the object becomes falsy).
Expire(stage) ==
    /\ stage \in HandlesOf(_stage_cache)
    /\ Usable(stage)
    /\ expired' = expired \cup {stage}
    /\ Disturb
    /\ UNCHANGED <<_stage_cache, fs, nolayer, opens, removedSince,
                   failedSince>>
    /\ UNCHANGED <<raceVars, layerVars>>

\* Environment: a cached stage loses its root layer.
LoseRootLayer(stage) ==
    /\ stage \in HandlesOf(_stage_cache)
    /\ Usable(stage)
    /\ nolayer' = nolayer \cup {stage}
    /\ Disturb
    /\ UNCHANGED <<_stage_cache, fs, expired, opens, removedSince,
                   failedSince>>
    /\ UNCHANGED <<raceVars, layerVars>>

\* Environment: a file changes on disk (created, deleted, made unreadable
\* or readable).
FsChange(loc, kind) ==
    /\ fs[loc] # kind
    /\ fs' = [fs EXCEPT ![loc] = kind]
    /\ Disturb
    /\ UNCHANGED <<_stage_cache, expired, nolayer, opens, removedSince,
                   failedSince>>
    /\ UNCHANGED <<raceVars, layerVars>>

Next ==
    \/ \E file_path \in RawPaths, outcome \in OpenOutcomes :
          Load(file_path, outcome)
    \/ \E file_path \in RawPaths : GetCached(file_path)
    \/ Clear
    \/ \E file_path \in RawPaths : Remove(file_path)
    \/ CacheInfo
    \/ \E stage \in Handles : Expire(stage)
    \/ \E stage \in Handles : LoseRootLayer(stage)
    \/ \E loc \in FilePaths, kind \in {"none", "file", "locked"} :
          FsChange(loc, kind)

Spec == Init /\ [][Next]_vars

\* ------------------------------------------------------- concurrent loads
\* load_stage holds no lock: two callers run its lines interleaved, each
\* line one step.

\* dict[key] of lines 38 and 44 on a key another caller has deleted.
KeyErrorMsg(normalized_path) == Str("KeyError: ", normalized_path)

\* Variant of StoreStage: an entry already under the key is kept.
StoreStage_keepfirst(cache, normalized_path, stage) ==
    IF normalized_path \in DOMAIN cache
    THEN cache
    ELSE With(cache, normalized_path, stage)

\* Line 53: self._stage_cache[normalized_path] = stage.
StoreStage(cache, normalized_path, stage) ==
    With(cache, normalized_path, stage)

\* One step of caller c: its position and locals change.
Step(c, to, f) ==
    /\ pc' = [pc EXCEPT ![c] = to]
    /\ frame' = [frame EXCEPT ![c] = f]

\* Lines 29-34: caller c enters load_stage(file_path), validates and
\* resolves the path.
RaceCall(c, file_path) ==
    LET v == validate_file_path(file_path)
    IN  /\ pc[c] = "idle"
        /\ IF ~v[1]
           THEN Step(c, "done", [NoFrame EXCEPT !.file_path = file_path,
                                                !.err = v[2]])
           ELSE Step(c, "37", [NoFrame EXCEPT
                                  !.file_path = file_path,
                                  !.normalized_path = NormalizedPath(file_path)])
        /\ UNCHANGED <<_stage_cache, expired, opens>>
        /\ UNCHANGED <<seqVars, layerVars>>

\* Line 37: if normalized_path in self._stage_cache.
RaceMember(c) ==
    /\ pc[c] = "37"
    /\ Step(c, IF frame[c].normalized_path \in DOMAIN _stage_cache
               THEN "38" ELSE "48", frame[c])
    /\ UNCHANGED <<_stage_cache, expired, opens>>
    /\ UNCHANGED <<seqVars, layerVars>>

\* Line 38: stage = self._stage_cache[normalized_path].
RaceRead(c) ==
    /\ pc[c] = "38"
    /\ IF frame[c].normalized_path \in DOMAIN _stage_cache
       THEN Step(c, "40", [frame[c] EXCEPT
                              !.stage = _stage_cache[frame[c].normalized_path]])
       ELSE Step(c, "raised", [frame[c] EXCEPT
                                  !.err = KeyErrorMsg(frame[c].normalized_path)])
    /\ UNCHANGED <<_stage_cache, expired, opens>>
    /\ UNCHANGED <<seqVars, layerVars>>

\* Lines 40-41: the stage read is returned when it is still valid.
RaceValid(c) ==
    /\ pc[c] = "40"
    /\ Step(c, IF StageStillValid(frame[c].stage) THEN "done" ELSE "44",
            frame[c])
    /\ UNCHANGED <<_stage_cache, expired, opens>>
    /\ UNCHANGED <<seqVars, layerVars>>

\* Line 44: del self._stage_cache[normalized_path].
RaceEvict(c) ==
    /\ pc[c] = "44"
    /\ IF frame[c].normalized_path \in DOMAIN _stage_cache
       THEN /\ _stage_cache' = Without(_stage_cache, frame[c].normalized_path)
            /\ Step(c, "48", [frame[c] EXCEPT !.stage = NoStage])
       ELSE /\ UNCHANGED _stage_cache
            /\ Step(c, "raised",
                    [frame[c] EXCEPT
                        !.stage = NoStage,
                        !.err = KeyErrorMsg(frame[c].normalized_path)])
    /\ UNCHANGED <<expired, opens>>
    /\ UNCHANGED <<seqVars, layerVars>>

\* Lines 48-50 and 56-57: Usd.Stage.Open(normalized_path) and its failures.
RaceOpen(c, outcome) ==
    /\ pc[c] = "48"
    /\ opens < MaxOpens
    /\ opens' = opens + 1
    /\ CASE outcome = "raise" ->
              Step(c, "done",
                   [frame[c] EXCEPT
                       !.opened = 1,
                       !.err = Str("Error loading USD stage: ", EngineExcText)])
         [] outcome = "falsy" ->
              Step(c, "done",
                   [frame[c] EXCEPT
                       !.opened = 1,
                       !.err = Str("Failed to open USD stage: ",
                                   frame[c].file_path)])
         [] OTHER ->
              Step(c, "53", [frame[c] EXCEPT !.opened = 1,
                                             !.stage = FreshHandle])
    /\ UNCHANGED <<_stage_cache, expired>>
    /\ UNCHANGED <<seqVars, layerVars>>

\* Lines 53-54: the stage is stored and returned.
RaceStore(c) ==
    /\ pc[c] = "53"
    /\ _stage_cache' = StoreStage(_stage_cache, frame[c].normalized_path,
                                  frame[c].stage)
    /\ Step(c, "done",
            [frame[c] EXCEPT
                !.overwrote =
                    IF frame[c].normalized_path \in DOMAIN _stage_cache
                    THEN _stage_cache[frame[c].normalized_path]
                    ELSE NoStage])
    /\ UNCHANGED <<expired, opens>>
    /\ UNCHANGED <<seqVars, layerVars>>

\* Caller c has its result (or the exception) and may call again.
RaceReturn(c) ==
    /\ pc[c] \in {"done", "raised"}
    /\ Step(c, "idle", NoFrame)
    /\ UNCHANGED <<_stage_cache, expired, opens>>
    /\ UNCHANGED <<seqVars, layerVars>>

\* Environment: a cached stage expires while callers run.
RaceExpire(stage) ==
    /\ stage \in HandlesOf(_stage_cache)
    /\ Usable(stage)
    /\ expired' = expired \cup {stage}
    /\ UNCHANGED <<_stage_cache, opens, pc, frame>>
    /\ UNCHANGED <<seqVars, layerVars>>

NextRace ==
    \/ \E c \in Callers, file_path \in RawPaths : RaceCall(c, file_path)
    \/ \E c \in Callers : RaceMember(c)
    \/ \E c \in Callers : RaceRead(c)
    \/ \E c \in Callers : RaceValid(c)
    \/ \E c \in Callers : RaceEvict(c)
    \/ \E c \in Callers, outcome \in OpenOutcomes : RaceOpen(c, outcome)
    \/ \E c \in Callers : RaceStore(c)
    \/ \E c \in Callers : RaceReturn(c)
    \/ \E stage \in Handles : RaceExpire(stage)

SpecRace == Init /\ [][NextRace]_vars

\* ---------------------------------------------------- hierarchy formatting
\* A prim tree: prim 1 is the pseudo-root, tree[i] is the parent of prim i
\* (0 for the pseudo-root), and the children of a prim are in the order of
\* their numbers.
TreesOfSize(n) ==
    { t \in [1..n -> 0..(n - 1)] :
        t[1] = 0 /\ \A i \in 2..n : t[i] \in 1..(i - 1) }

Trees == UNION { TreesOfSize(n) : n \in 1..MaxPrims }

\* The depth limits a caller passes: -1 for unlimited.
DepthLimits == (-1)..MaxDepth

\* prim.GetChildren(): the children of a prim, in order.
GetChildren(tree, prim) ==
    SelectSeq([j \in 1..Len(tree) |-> j], LAMBDA j : tree[j] = prim)

\* Variant of format_hierarchy_node: the prims at the depth limit are
\* left out.
RECURSIVE format_hierarchy_node_shallow(_, _, _, _)
format_hierarchy_node_shallow(tree, prim, max_depth, current_depth) ==
    LET children == GetChildren(tree, prim)
    IN  [prim |-> prim,
         children |->
             IF max_depth = -1 \/ current_depth + 1 < max_depth
             THEN [k \in 1..Len(children) |->
                      format_hierarchy_node_shallow(tree, children[k], max_depth,
                                                    current_depth + 1)]
             ELSE << >>]

\* formatting.py, format_hierarchy_node: the node of a prim, with the nodes
\* of its children while the depth limit is not reached.
RECURSIVE format_hierarchy_node(_, _, _, _)
format_hierarchy_node(tree, prim, max_depth, current_depth) ==
    LET children == GetChildren(tree, prim)
    IN  [prim |-> prim,
         children |->
             IF max_depth = -1 \/ current_depth < max_depth
             THEN [k \in 1..Len(children) |->
                      format_hierarchy_node(tree, children[k], max_depth,
                                            current_depth + 1)]
             ELSE << >>]

\* The concatenation of a sequence of sequences.
RECURSIVE Flatten(_)
Flatten(seqs) ==
    IF seqs = << >> THEN << >> ELSE Head(seqs) \o Flatten(Tail(seqs))

\* hierarchy.py, _format_hierarchy_text: the lines of the text.  A line is
\* the number of spaces it starts with and either a prim or the count of
\* children of the "depth limit reached" line (prim 0).
RECURSIVE _format_hierarchy_text(_, _, _)
_format_hierarchy_text(node, max_depth, current_depth) ==
    LET indent == 2 * current_depth
        children == node.children
        line == [spaces |-> indent, prim |-> node.prim, more |-> 0]
    IN  IF children # << >> /\ (max_depth = -1 \/ current_depth < max_depth)
        THEN <<line>> \o
             Flatten([k \in 1..Len(children) |->
                         _format_hierarchy_text(children[k], max_depth,
                                                current_depth + 1)])
        ELSE IF children # << >> /\ max_depth # -1
                /\ current_depth >= max_depth
        THEN <<line, [spaces |-> indent + 2, prim |-> 0,
                      more |-> Len(children)]>>
        ELSE <<line>>

\* hierarchy.py lines 39 and 48: the hierarchy of the stage is built from
\* the pseudo-root and printed, with the same depth limit.
FormatHierarchy(tree, max_depth) ==
    /\ hier' = LET hierarchy == format_hierarchy_node(tree, 1, max_depth, 0)
               IN  [called |-> TRUE,
                    tree |-> tree,
                    max_depth |-> max_depth,
                    hierarchy |-> hierarchy,
                    text |-> _format_hierarchy_text(hierarchy, max_depth, 0)]
    /\ UNCHANGED <<_stage_cache, expired, opens, tool, client>>
    /\ UNCHANGED <<seqVars, raceVars>>

NextHierarchy ==
    \E tree \in Trees, max_depth \in DepthLimits :
        FormatHierarchy(tree, max_depth)

SpecHierarchy == Init /\ [][NextHierarchy]_vars

\* ------------------------------------------------------------ the tool layer
\* The prims of every stage the engine opens: pseudo-root -> A -> B.
SceneTree == <<0, 1, 2>>

\* prim.GetName() and prim.GetTypeName().
GetName(prim) == CASE prim = 2 -> <<"A">> [] prim = 3 -> <<"B">> [] OTHER -> << >>

GetTypeName(prim) ==
    CASE prim = 2 -> "Xform" [] prim = 3 -> "Sphere" [] OTHER -> ""

\* str(prim.GetPath()): "/" for the pseudo-root, "/A", "/A/B".
RECURSIVE GetPath(_)
GetPath(prim) ==
    IF SceneTree[prim] = 0 THEN <<"/">>
    ELSE IF SceneTree[SceneTree[prim]] = 0 THEN <<"/">> \o GetName(prim)
    ELSE GetPath(SceneTree[prim]) \o <<"/">> \o GetName(prim)

\* The prim paths callers pass: "", "A", "/A/B", "/Z", "/A*", "/?<".
PrimPaths ==
    { << >>, <<"A">>, <<"/", "A", "/", "B">>, <<"/", "Z">>,
      <<"/", "A", "*">>, <<"/", "?", "<">> }

\* The file paths callers of the tools pass: a.usda, and g.txt, which does
\* not exist.
ToolPaths == { <<N_a_usda>>, <<N_g_txt>> }

\* The names callers search for.
NamePatterns == { <<"A">>, <<"Z">> }

\* The prim types callers filter by; "" is falsy.
PrimTypes == { "", "Xform" }

\* The characters of a string.
CharsOf(str) == { str[k] : k \in 1..Len(str) }

\* validation.py line 57.
invalid_chars == <<"<", ">", "\"", "|", "?", "*">>

\* validation.py, validate_prim_path: (is_valid, error_message).  The
\* invalid character reported is the first of invalid_chars the path has.
validate_prim_path(prim_path) ==
    IF prim_path = << >>
    THEN <<FALSE, Str("Prim path cannot be empty", << >>)>>
    ELSE IF Head(prim_path) # "/"
    THEN <<FALSE, Str("Prim path must start with '/'", << >>)>>
    ELSE LET found == { k \in 1..Len(invalid_chars) :
                          invalid_chars[k] \in CharsOf(prim_path) }
         IN  IF found # {}
             THEN LET k == CHOOSE k \in found : \A j \in found : k <= j
                  IN  <<FALSE, Str("Prim path contains invalid character ",
                                   <<invalid_chars[k], prim_path>>)>>
             ELSE <<TRUE, EmptyStr>>

\* stage.GetPrimAtPath(prim_path): the prim, 0 for an invalid prim.
GetPrimAtPath(prim_path) ==
    IF \E i \in 1..Len(SceneTree) : GetPath(i) = prim_path
    THEN CHOOSE i \in 1..Len(SceneTree) : GetPath(i) = prim_path
    ELSE 0

\* stage.Traverse(): the prims below the pseudo-root, parents first.
Traverse == <<2, 3>>

\* The manager call of a tool: what load_stage returned; called tells
\* whether load_stage was called at all.
NoLoad ==
    [stage |-> NoStage, err |-> NoneMsg, cache |-> _stage_cache, opened |-> 0,
     raised |-> FALSE, called |-> FALSE]

Loaded(l) == l @@ [called |-> TRUE]

\* Variant of ManagerLoad: every caller of get_stage_manager gets a manager
\* of its own, with an empty cache.
ManagerLoad_fresh(file_path, outcome) ==
    LET v == validate_file_path(file_path)
    IN  Loaded(IF ~v[1]
               THEN LoadResult(NoStage, v[2], _stage_cache, 0, FALSE)
               ELSE OpenAndStore(_stage_cache, NormalizedPath(file_path),
                                 file_path, outcome))

\* stage_manager.py lines 116-122 and prim_inspector.py lines 17-19: every
\* tool loads through the one manager get_stage_manager() returns.
ManagerLoad(file_path, outcome) == Loaded(load_stage(file_path, outcome))

\* A text content block.
TextContent(text, body) == [type |-> "text", text |-> text, body |-> body]

\* What a tool function did: the list it returned, or the exception it
\* raised, and its call of the manager.
ToolReturn(text, body, l) ==
    [kind |-> "return", blocks |-> <<TextContent(text, body)>>,
     exc |-> "", load |-> l]

ToolRaise(exc, l) == [kind |-> "raise", blocks |-> << >>, exc |-> exc, load |-> l]

\* The text of a missing required argument.
Missing(name) == Str("Error: Missing required argument ", name)

\* A value of argument max_depth: the integer n, or str(n), its text.
IntVal(n) == [type |-> "int", v |-> n]

IntStr(n) == [type |-> "str", v |-> n]

\* tools/load_stage.py, load_usd_stage_tool.
load_usd_stage_tool(arguments, outcome) ==
    IF "file_path" \notin DOMAIN arguments
    THEN ToolReturn(Missing("file_path"), << >>, NoLoad)
    ELSE LET file_path == arguments["file_path"]
             l == ManagerLoad(file_path, outcome)
         IN  IF l.stage = NoStage
             THEN ToolReturn(Str("Error loading USD stage: ", l.err), << >>, l)
             ELSE ToolReturn(Str("Successfully loaded USD stage: ", file_path),
                             << >>, l)

\* prim_inspector.py, get_stage_hierarchy: (hierarchy, error_message).
get_stage_hierarchy(file_path, max_depth, outcome) ==
    LET l == ManagerLoad(file_path, outcome)
    IN  IF l.stage = NoStage
        THEN [value |-> << >>, err |-> l.err, load |-> l]
        ELSE [value |-> format_hierarchy_node(SceneTree, 1, max_depth, 0),
              err |-> NoneMsg, load |-> l]

\* tools/hierarchy.py, get_stage_hierarchy_tool.  max_depth is an integer
\* or the text of one; "<" between a text and -1 raises TypeError.
get_stage_hierarchy_tool(arguments, outcome) ==
    IF "file_path" \notin DOMAIN arguments
    THEN ToolReturn(Missing("file_path"), << >>, NoLoad)
    ELSE LET file_path == arguments["file_path"]
             given == IF "max_depth" \in DOMAIN arguments
                      THEN arguments["max_depth"] ELSE IntVal(-1)
             max_depth == given.v
         IN  IF given.type # "int"
             THEN ToolRaise("TypeError", NoLoad)
             ELSE IF max_depth < -1
             THEN ToolReturn(
                      Str("Error: max_depth must be -1 (unlimited) or a positive integer",
                          << >>), << >>, NoLoad)
             ELSE LET h == get_stage_hierarchy(file_path, max_depth, outcome)
                  IN  IF h.value = << >>
                      THEN ToolReturn(Str("Error getting stage hierarchy: ",
                                          h.err), << >>, h.load)
                      ELSE ToolReturn(
                               Str("USD Stage Hierarchy for: ", file_path),
                               _format_hierarchy_text(h.value, max_depth, 0),
                               h.load)

\* Variant of get_prim_info: the stage is loaded before the prim path is
\* validated.
get_prim_info_loadfirst(file_path, prim_path, outcome) ==
    LET v == validate_prim_path(prim_path)
        l == ManagerLoad(file_path, outcome)
    IN  IF l.stage = NoStage
        THEN [value |-> 0, err |-> l.err, load |-> l]
        ELSE IF ~v[1]
        THEN [value |-> 0, err |-> v[2], load |-> l]
        ELSE IF GetPrimAtPath(prim_path) = 0
        THEN [value |-> 0, err |-> Str("Prim not found at path: ", prim_path),
              load |-> l]
        ELSE [value |-> GetPrimAtPath(prim_path), err |-> NoneMsg, load |-> l]

\* prim_inspector.py, get_prim_info: (prim_info, error_message).
get_prim_info(file_path, prim_path, outcome) ==
    LET v == validate_prim_path(prim_path)
    IN  IF ~v[1]
        THEN [value |-> 0, err |-> v[2], load |-> NoLoad]
        ELSE LET l == ManagerLoad(file_path, outcome)
             IN  IF l.stage = NoStage
                 THEN [value |-> 0, err |-> l.err, load |-> l]
                 ELSE IF GetPrimAtPath(prim_path) = 0
                 THEN [value |-> 0,
                       err |-> Str("Prim not found at path: ", prim_path),
                       load |-> l]
                 ELSE [value |-> GetPrimAtPath(prim_path), err |-> NoneMsg,
                       load |-> l]

\* Variant of inspect_prim_tool: prim_path is looked for first.
inspect_prim_tool_primfirst(arguments, outcome) ==
    IF "prim_path" \notin DOMAIN arguments
    THEN ToolReturn(Missing("prim_path"), << >>, NoLoad)
    ELSE IF "file_path" \notin DOMAIN arguments
    THEN ToolReturn(Missing("file_path"), << >>, NoLoad)
    ELSE LET i == get_prim_info(arguments["file_path"], arguments["prim_path"],
                                outcome)
         IN  IF i.value = 0
             THEN ToolReturn(Str("Error inspecting prim: ", i.err), << >>, i.load)
             ELSE ToolReturn(Str("USD Prim Inspection: ", arguments["prim_path"]),
                             <<i.value>>, i.load)

\* tools/inspect.py, inspect_prim_tool.
inspect_prim_tool(arguments, outcome) ==
    IF "file_path" \notin DOMAIN arguments
    THEN ToolReturn(Missing("file_path"), << >>, NoLoad)
    ELSE IF "prim_path" \notin DOMAIN arguments
    THEN ToolReturn(Missing("prim_path"), << >>, NoLoad)
    ELSE LET i == get_prim_info(arguments["file_path"], arguments["prim_path"],
                                outcome)
         IN  IF i.value = 0
             THEN ToolReturn(Str("Error inspecting prim: ", i.err), << >>, i.load)
             ELSE ToolReturn(Str("USD Prim Inspection: ", arguments["prim_path"]),
                             <<i.value>>, i.load)

\* tools/list_prims.py, list_stage_prims_tool, with prim_inspector.py,
\* list_prims: a falsy prim_type filters nothing.
list_stage_prims_tool(arguments, outcome) ==
    IF "file_path" \notin DOMAIN arguments
    THEN ToolReturn(Missing("file_path"), << >>, NoLoad)
    ELSE LET file_path == arguments["file_path"]
             prim_type == IF "prim_type" \in DOMAIN arguments
                          THEN arguments["prim_type"] ELSE ""
             l == ManagerLoad(file_path, outcome)
         IN  IF l.stage = NoStage
             THEN ToolReturn(Str("Error listing prims: ", l.err), << >>, l)
             ELSE ToolReturn(
                      Str("USD Stage Prims", <<prim_type, file_path>>),
                      SelectSeq(Traverse,
                                LAMBDA p : prim_type = ""
                                           \/ GetTypeName(p) = prim_type),
                      l)

\* tools/list_prims.py, find_prims_by_name_tool, with prim_inspector.py,
\* find_prims_by_name.
find_prims_by_name_tool(arguments, outcome) ==
    IF "file_path" \notin DOMAIN arguments
    THEN ToolReturn(Missing("file_path"), << >>, NoLoad)
    ELSE IF "name_pattern" \notin DOMAIN arguments
    THEN ToolReturn(Missing("name_pattern"), << >>, NoLoad)
    ELSE LET file_path == arguments["file_path"]
             name_pattern == arguments["name_pattern"]
             l == ManagerLoad(file_path, outcome)
             prims == SelectSeq(Traverse, LAMBDA p : GetName(p) = name_pattern)
         IN  IF l.stage = NoStage
             THEN ToolReturn(Str("Error finding prims: ", l.err), << >>, l)
             ELSE IF prims = << >>
             THEN ToolReturn(Str("No prims found with name ",
                                 <<name_pattern, file_path>>), << >>, l)
             ELSE ToolReturn(Str("Prims named ", <<name_pattern, file_path>>),
                             prims, l)

\* The five tools.
ToolNames ==
    { "load_usd_stage", "get_stage_hierarchy", "inspect_prim",
      "list_stage_prims", "find_prims_by_name" }

\* The tool function behind a tool name.
Dispatch(name, arguments, outcome) ==
    CASE name = "load_usd_stage" -> load_usd_stage_tool(arguments, outcome)
      [] name = "get_stage_hierarchy" ->
           get_stage_hierarchy_tool(arguments, outcome)
      [] name = "inspect_prim" -> inspect_prim_tool(arguments, outcome)
      [] name = "list_stage_prims" -> list_stage_prims_tool(arguments, outcome)
      [] OTHER -> find_prims_by_name_tool(arguments, outcome)

\* A dictionary of one key.
Arg(key, value) == [k \in {key} |-> value]

\* The argument dictionaries a direct caller of a tool function passes:
\* any of the keys of the tool's schema may be missing; max_depth is an
\* integer, as the schema says.
ToolArguments(name) ==
    LET files == {EmptyCache} \cup { Arg("file_path", p) : p \in ToolPaths }
        second ==
            CASE name = "get_stage_hierarchy" ->
                   { Arg("max_depth", IntVal(d)) : d \in {-2, 0, 1} }
              [] name = "inspect_prim" ->
                   { Arg("prim_path", p) : p \in PrimPaths }
              [] name = "list_stage_prims" ->
                   { Arg("prim_type", t) : t \in PrimTypes }
              [] name = "find_prims_by_name" ->
                   { Arg("name_pattern", n) : n \in NamePatterns }
              [] OTHER -> {}
    IN  { f @@ s : f \in files, s \in {EmptyCache} \cup second }

\* The parameters of the functions server.py registers: file_path and, by
\* tool, max_depth (default -1), prim_path, prim_type (default None, here
\* ""), name_pattern.
ServerParams(name) ==
    LET files == { Arg("file_path", p) : p \in ToolPaths }
        second ==
            CASE name = "get_stage_hierarchy" ->
                   { Arg("max_depth", d) : d \in (-1)..2 }
              [] name = "inspect_prim" ->
                   { Arg("prim_path", p) : p \in PrimPaths }
              [] name = "list_stage_prims" ->
                   { Arg("prim_type", t) : t \in PrimTypes }
              [] name = "find_prims_by_name" ->
                   { Arg("name_pattern", n) : n \in NamePatterns }
              [] OTHER -> {EmptyCache}
    IN  { f @@ s : f \in files, s \in second }

\* server.py lines 40, 56-58, 75, 91-93, 110: the argument dictionary the
\* registered function builds from its parameters.  The depth limit is
\* passed as str(max_depth) unless it is -1; a falsy prim_type is left out.
ServerArguments(name, params) ==
    LET file == Arg("file_path", params["file_path"])
    IN  CASE name = "get_stage_hierarchy" ->
               IF params["max_depth"] # -1
               THEN file @@ Arg("max_depth", IntStr(params["max_depth"]))
               ELSE file
          [] name = "list_stage_prims" ->
               IF params["prim_type"] # ""
               THEN file @@ Arg("prim_type", params["prim_type"])
               ELSE file
          [] name = "inspect_prim" ->
               file @@ Arg("prim_path", params["prim_path"])
          [] name = "find_prims_by_name" ->
               file @@ Arg("name_pattern", params["name_pattern"])
          [] OTHER -> file

\* server.py, _extract_text_from_content: the text of the first block.
_extract_text_from_content(content_blocks) ==
    IF content_blocks = << >>
    THEN TextContent(Str("No content returned", << >>), << >>)
    ELSE content_blocks[1]

\* The record of a tool call.
\*   via          "tool": the tool function was called with arguments;
\*                "server": the function server.py registers was called
\*                with params and built arguments
\*   kind, blocks, exc   what the tool function did
\*   reply        what the registered function returned (via "server")
\*   load         the call of load_stage the tool made, if any
\*   pre, opensBefore, entry, stale, rejection   the cache and the opens
\*                before the call, the state of the entry of the file's
\*                location, the keys with an unusable handle, and what
\*                validation has against the file path
\*   prev         who loaded in the call before: "manager"
\*                (load_usd_stage), "inspector" (the other tools), "" when
\*                load_stage was not called
ToolRecord(via, name, params, arguments, r, outcome) ==
    LET has == "file_path" \in DOMAIN arguments
        loc == IF has THEN Resolve(arguments["file_path"]) ELSE EmptyPath
    IN  [name |-> name,
         via |-> via,
         params |-> params,
         arguments |-> arguments,
         kind |-> r.kind,
         blocks |-> r.blocks,
         exc |-> r.exc,
         reply |-> IF via = "server" /\ r.kind = "return"
                   THEN _extract_text_from_content(r.blocks)
                   ELSE TextContent(EmptyStr, << >>),
         load |-> [stage |-> r.load.stage, opened |-> r.load.opened,
                   called |-> r.load.called,
                   outcome |-> IF r.load.opened = 0 THEN "" ELSE outcome],
         pre |-> _stage_cache,
         opensBefore |-> opens,
         loc |-> loc,
         entry |-> IF has THEN EntryState(_stage_cache, loc) ELSE "absent",
         stale |-> { k \in DOMAIN _stage_cache : ~Usable(_stage_cache[k]) },
         rejection |-> IF has THEN Rejection(arguments["file_path"]) ELSE "",
         prev |-> IF ~tool.load.called THEN ""
                  ELSE IF tool.name = "load_usd_stage" THEN "manager"
                  ELSE "inspector"]

\* A tool function runs: the cache and the opens change as its call of
\* load_stage says.
RunTool(via, name, params, arguments, outcome) ==
    LET Run(r) ==
            /\ opens + r.load.opened <= MaxOpens
            /\ r.load.opened = 0 => outcome = "ok"
            /\ _stage_cache' = r.load.cache
            /\ opens' = opens + r.load.opened
            /\ tool' = ToolRecord(via, name, params, arguments, r, outcome)
            /\ Release(r.load.cache)
            /\ UNCHANGED <<fs, last, removedSince, failedSince, hier, client>>
            /\ UNCHANGED raceVars
    IN  Run(Dispatch(name, arguments, outcome))

\* A tool function is called with an argument dictionary.
ToolCall(name, arguments, outcome) ==
    RunTool("tool", name, arguments, arguments, outcome)

\* A function server.py registers is called with its parameters.
ServerCall(name, params, outcome) ==
    RunTool("server", name, params, ServerArguments(name, params), outcome)

NextTools ==
    \/ \E name \in ToolNames, outcome \in OpenOutcomes :
          \E arguments \in ToolArguments(name) :
              ToolCall(name, arguments, outcome)
    \/ \E name \in ToolNames, outcome \in OpenOutcomes :
          \E params \in ServerParams(name) : ServerCall(name, params, outcome)
    \/ \E stage \in Handles : Expire(stage)

SpecTools == Init /\ [][NextTools]_vars

\* ----------------------------------------------------------------- the client
\* The most tool calls a client sends.
MaxCalls == 2

\* The script paths given to connect: server.py exists, gone.py does not,
\* server.js exists.
S_server_py == <<"s", ".", "p", "y">>
S_gone_py == <<"g", ".", "p", "y">>
S_server_js == <<"s", ".", "j", "s">>

ScriptPaths == { S_server_py, S_gone_py, S_server_js }

\* os.path.exists on the client's side.
ScriptExists(path) == path \in { S_server_py, S_server_js }

\* str.endswith('.py').
EndsWithPy(path) ==
    Len(path) >= 3 /\ SubSeq(path, Len(path) - 2, Len(path)) = <<".", "p", "y">>

\* How the transport answers a connect that passed the checks: the server
\* starts and answers ("ok"), stdio_client raises ("spawn"), or
\* session.initialize() or list_tools() raises ("initialize").
Transports == { "ok", "spawn", "initialize" }

\* An exception raised to the caller of the client.
Exc(type, text) == [type |-> type, text |-> text]

NoExc == Exc("", "")

\* Variant of connect: the session is created before the script is looked
\* at.
connect_sessionfirst(server_script_path, transport) ==
    IF ~ScriptExists(server_script_path)
    THEN [session |-> TRUE,
          exc |-> Exc("FileNotFoundError", "Server script not found: ")]
    ELSE IF ~EndsWithPy(server_script_path)
    THEN [session |-> TRUE,
          exc |-> Exc("ValueError", "Server script must be a .py file")]
    ELSE IF transport = "spawn"
    THEN [session |-> TRUE, exc |-> Exc("Exception", "stdio_client")]
    ELSE IF transport = "initialize"
    THEN [session |-> TRUE, exc |-> Exc("Exception", "initialize")]
    ELSE [session |-> TRUE, exc |-> NoExc]

\* client.py, USDMCPClient.connect: the session it leaves and the exception
\* it raises.  self.session is assigned at line 54, before initialize().
connect(server_script_path, transport) ==
    IF ~ScriptExists(server_script_path)
    THEN [session |-> client.session,
          exc |-> Exc("FileNotFoundError", "Server script not found: ")]
    ELSE IF ~EndsWithPy(server_script_path)
    THEN [session |-> client.session,
          exc |-> Exc("ValueError", "Server script must be a .py file")]
    ELSE IF transport = "spawn"
    THEN [session |-> client.session, exc |-> Exc("Exception", "stdio_client")]
    ELSE IF transport = "initialize"
    THEN [session |-> TRUE, exc |-> Exc("Exception", "initialize")]
    ELSE [session |-> TRUE, exc |-> NoExc]

\* The arguments the methods of the client are called with.
MethodArgs(method) ==
    LET files == { Arg("file_path", p) : p \in ToolPaths }
        second ==
            CASE method = "get_stage_hierarchy" ->
                   { Arg("max_depth", d) : d \in {-1, 1} }
              [] method = "inspect_prim" ->
                   { Arg("prim_path", <<"/", "A", "/", "B">>) }
              [] method = "list_stage_prims" ->
                   { Arg("prim_type", t) : t \in PrimTypes }
              [] method = "find_prims_by_name" ->
                   { Arg("name_pattern", <<"A">>) }
              [] OTHER -> {EmptyCache}
    IN  { f @@ s : f \in files, s \in second }

\* client.py lines 81, 98-102, 119, 137-141, 158: the params a method
\* sends: the depth limit as str(max_depth) unless it is -1, a falsy
\* prim_type left out.
ClientParams(method, args) ==
    LET file == Arg("file_path", args["file_path"])
    IN  CASE method = "get_stage_hierarchy" ->
               IF args["max_depth"] # -1
               THEN file @@ Arg("max_depth", IntStr(args["max_depth"]))
               ELSE file
          [] method = "list_stage_prims" ->
               IF args["prim_type"] # ""
               THEN file @@ Arg("prim_type", args["prim_type"])
               ELSE file
          [] method = "inspect_prim" ->
               file @@ Arg("prim_path", args["prim_path"])
          [] method = "find_prims_by_name" ->
               file @@ Arg("name_pattern", args["name_pattern"])
          [] OTHER -> file

\* The record of a call of the client: the method, what it was given and
\* the exception it raised (NoExc when it returned), with the session and
\* the calls sent before it.
ClientRecord(method, args, session, exc, sent) ==
    [session |-> session,
     server_script_path |-> IF method = "connect" THEN args
                            ELSE client.server_script_path,
     closed |-> IF method = "close" THEN TRUE ELSE client.closed,
     sent |-> sent,
     method |-> method,
     args |-> args,
     exc |-> exc,
     sessionBefore |-> client.session,
     sentBefore |-> client.sent]

\* client.connect(server_script_path).
Connect(server_script_path, transport) ==
    LET r == connect(server_script_path, transport)
    IN  /\ client' = ClientRecord("connect", server_script_path, r.session,
                                  r.exc, client.sent)
        /\ UNCHANGED <<_stage_cache, expired, opens, tool, hier>>
        /\ UNCHANGED <<seqVars, raceVars>>

\* USDMCPClientSync.connect(), lines 265-267: connect is called without its
\* argument, which raises TypeError before connect runs.
SyncConnect ==
    /\ client' = ClientRecord("sync_connect", client.server_script_path,
                              client.session, Exc("TypeError", "connect"),
                              client.sent)
    /\ UNCHANGED <<_stage_cache, expired, opens, tool, hier>>
    /\ UNCHANGED <<seqVars, raceVars>>

\* One of the five tool methods of the client: RuntimeError without a
\* session, else session.call_tool(method, params).
ToolMethod(method, args) ==
    /\ client.session => Len(client.sent) < MaxCalls
    /\ client' =
          IF ~client.session
          THEN ClientRecord(method, args, client.session,
                            Exc("RuntimeError",
                                "Not connected to server. Call connect() first."),
                            client.sent)
          ELSE ClientRecord(method, args, client.session, NoExc,
                            Append(client.sent,
                                   [name |-> method,
                                    params |-> ClientParams(method, args)]))
    /\ UNCHANGED <<_stage_cache, expired, opens, tool, hier>>
    /\ UNCHANGED <<seqVars, raceVars>>

\* client.close(): the exit stack is closed; self.session is left as it is.
Close ==
    /\ client' = ClientRecord("close", << >>, client.session, NoExc,
                              client.sent)
    /\ UNCHANGED <<_stage_cache, expired, opens, tool, hier>>
    /\ UNCHANGED <<seqVars, raceVars>>

NextClient ==
    \/ \E server_script_path \in ScriptPaths, transport \in Transports :
          Connect(server_script_path, transport)
    \/ SyncConnect
    \/ \E method \in ToolNames : \E args \in MethodArgs(method) :
          ToolMethod(method, args)
    \/ Close

SpecClient == Init /\ [][NextClient]_vars

\* ------------------------------------------------------------- properties
\* The canonical location of the path of the most recent call.
LastLoc == Resolve(last.path)

\* The keys under which a dictionary holds a stage.
KeysOf(cache, stage) == { k \in DOMAIN cache : cache[k] = stage }

\* The most recent call is a load_stage.
IsLoad == last.op = "load"

\* C1: when load(P1) returned a stage and the next call is load(P2), P2
\* passing validation and resolving to the location of P1, the stage still
\* usable, then the second call opens nothing and returns the very stage the
\* first returned, which is held under the one key that is the location;
\* the two calls make one open between them when the first found no usable
\* entry, and none otherwise.
C1_SameLocationOneOpen ==
    (IsLoad /\ last.again # "" /\ last.rejection = "" /\ last.prevUsable) =>
        /\ last.opened = 0
        /\ last.stage = last.prevStage
        /\ last.err = NoneMsg
        /\ KeysOf(_stage_cache, last.stage) = {LastLoc}
        /\ last.prevOpened + last.opened
             = IF last.prevEntry = "usable" THEN 0 ELSE 1

\* Two raw paths of one location loaded one after the other, the first load
\* opening the file.
C1_Witness ==
    /\ IsLoad
    /\ last.again = "loc"
    /\ last.rejection = ""
    /\ last.prevUsable
    /\ last.prevOpened = 1
    /\ last.stage # NoStage

\* C2: load(path) called twice in succession, the first call returning a
\* stage and nothing happening in between: the second call returns the same
\* stage, opens nothing and leaves the cache as it was.
C2_LoadIdempotent ==
    (IsLoad /\ last.again = "path" /\ last.quiet) =>
        /\ last.stage # NoStage
        /\ last.stage = last.prevStage
        /\ last.err = NoneMsg
        /\ last.opened = 0
        /\ _stage_cache = last.pre

\* The same raw path loaded twice in succession, the first load opening the
\* file.
C2_Witness ==
    /\ IsLoad
    /\ last.again = "path"
    /\ last.quiet
    /\ last.prevOpened = 1
    /\ last.opened = 0
    /\ last.stage # NoStage

\* C3: a load never returns an unusable stage; when the entry it finds is
\* unusable, the old handle is gone from the cache afterwards and the call
\* makes exactly one open, whose result decides the call as for a miss.
C3_StaleEntryNeverReturned ==
    /\ (IsLoad /\ last.stage # NoStage) => last.usable
    /\ (IsLoad /\ last.rejection = "" /\ last.entry = "unusable") =>
          /\ last.stage # last.pre[LastLoc]
          /\ KeysOf(_stage_cache, last.pre[LastLoc]) = {}
          /\ last.opened = 1
          /\ last.outcome = "ok" =>
                /\ last.stage # NoStage
                /\ KeysOf(_stage_cache, last.stage) = {LastLoc}
          /\ last.outcome # "ok" =>
                /\ last.stage = NoStage
                /\ LastLoc \notin DOMAIN _stage_cache

\* A load that found an unusable entry and returned a freshly opened stage.
C3_Witness ==
    /\ IsLoad
    /\ last.rejection = ""
    /\ last.entry = "unusable"
    /\ last.opened = 1
    /\ last.stage # NoStage

C5_RejectedPathChangesNothing ==
    (IsLoad /\ last.rejection # "") =>
        /\ last.stage = NoStage
        /\ ~last.err.isNone
        /\ last.err.text # ""
        /\ last.opened = 0
        /\ ~last.raised
        /\ _stage_cache = last.pre

\* A load of a .txt path whose location is cached (through the link L.USD).
C5_Witness ==
    /\ IsLoad
    /\ last.rejection = "extension"
    /\ LastLoc \in DOMAIN last.pre
    /\ LastLoc \in DOMAIN _stage_cache

\* C6: a load of a path that does not exist answers "File does not exist"
\* with the path, and opens nothing, whatever the extension.
C6_MissingFileError ==
    (IsLoad /\ last.rejection = "nonexistent") =>
        /\ last.stage = NoStage
        /\ last.err = Str("File does not exist: ", last.path)
        /\ last.opened = 0

\* A load of a missing path whose extension is not a scene-file extension.
C6_Witness ==
    /\ IsLoad
    /\ last.rejection = "nonexistent"
    /\ last.path \notin Recognized
    /\ last.err.text = "File does not exist: "

\* C7: when the open raises or returns a falsy stage, load returns no
\* stage and a message and the cache holds nothing for the location; when
\* it returns a stage, that stage is returned and stored under the location.
C7_OpenOutcomeDecidesEntry ==
    (IsLoad /\ last.outcome # "") =>
        /\ last.outcome \in {"raise", "falsy"} =>
              /\ last.stage = NoStage
              /\ ~last.err.isNone
              /\ LastLoc \notin DOMAIN _stage_cache
        /\ last.outcome = "ok" =>
              /\ last.stage # NoStage
              /\ last.err = NoneMsg
              /\ LastLoc \in DOMAIN _stage_cache
              /\ _stage_cache[LastLoc] = last.stage

\* A load whose open returned a falsy stage, an unusable entry having been
\* there before.
C7_Witness ==
    /\ IsLoad
    /\ last.outcome = "falsy"
    /\ last.entry = "unusable"
    /\ LastLoc \notin DOMAIN _stage_cache

\* C8: a load makes at most one open, and a load that passes validation at
\* a location whose latest open failed makes one.
C8_NoRetryFreshOpenAfterFailure ==
    IsLoad =>
        /\ last.opened <= 1
        /\ (last.preFailed /\ last.rejection = "") => last.opened = 1

\* A load that opened the file after the open before it had failed.
C8_Witness ==
    /\ IsLoad
    /\ last.preFailed
    /\ last.rejection = ""
    /\ last.opened = 1
    /\ last.stage # NoStage

C10_RemovedUntilReloaded ==
    /\ \A loc \in CanonPaths :
          removedSince[loc] # NoStage => loc \notin DOMAIN _stage_cache
    /\ (last.op = "get_cached" /\ last.preRemoved # NoStage) =>
          last.stage = NoStage
    /\ (IsLoad /\ last.preRemoved # NoStage /\ last.rejection = "") =>
          /\ last.opened = 1
          /\ last.stage # last.preRemoved

\* A load that reopened a location after its entry had been removed.
C10_Witness ==
    /\ IsLoad
    /\ last.preRemoved # NoStage
    /\ last.opened = 1
    /\ last.stage # NoStage
    /\ _stage_cache[LastLoc] = last.stage

\* C11: remove returns True exactly when the location of its path had an
\* entry; it leaves the cache without that entry and with every other entry
\* as it was; after a remove that returned True, a remove of the location
\* returns False until a load has stored a stage for it again.
C11_RemoveExactlyThatEntry ==
    last.op = "remove" =>
        /\ last.removed = (LastLoc \in DOMAIN last.pre)
        /\ DOMAIN _stage_cache = DOMAIN last.pre \ {LastLoc}
        /\ \A k \in DOMAIN _stage_cache : _stage_cache[k] = last.pre[k]
        /\ last.preRemoved # NoStage => ~last.removed

\* A remove that returned True and left another entry in the cache.
C11_Witness ==
    /\ last.op = "remove"
    /\ last.removed
    /\ LastLoc \in DOMAIN last.pre
    /\ DOMAIN _stage_cache # {}

\* C12: once clear has run, whatever the cache held, get_cache_info gives
\* the empty mapping and get_cached_stage gives None for every path.
C12_ClearDropsEverything ==
    last.op = "clear" =>
        /\ _stage_cache = EmptyCache
        /\ DOMAIN get_cache_info = {}
        /\ \A p \in RawPaths : get_cached_stage(p) = NoStage

\* A clear of a cache that held two entries.
C12_Witness ==
    /\ last.op = "clear"
    /\ Cardinality(DOMAIN last.pre) = 2
    /\ _stage_cache = EmptyCache

\* C13: get_cached_stage opens nothing and leaves the cache as it was; it
\* returns the handle stored under the location of its path, usable or not,
\* and None when there is none; after a load that returned a stage, it gives
\* that stage for every raw path of the location.
C13_GetCachedReadOnly ==
    /\ last.op = "get_cached" =>
          /\ opens = last.opensBefore
          /\ _stage_cache = last.pre
          /\ last.stage = IF LastLoc \in DOMAIN last.pre
                          THEN last.pre[LastLoc] ELSE NoStage
    /\ (IsLoad /\ last.stage # NoStage) =>
          \A p \in RawPaths :
              Resolve(p) = LastLoc => get_cached_stage(p) = last.stage

\* get_cached_stage that returned a usable stage through the absolute
\* spelling of a.usda.
C13_Witness ==
    /\ last.op = "get_cached"
    /\ last.path = <<Root, <<"w">>, DotDot, <<"w">>, Dot, N_a_usda>>
    /\ last.stage # NoStage
    /\ last.usable

\* C14: get_cache_info opens nothing and leaves the cache as it was; the
\* mapping it returns has the keys of the cache, and is_valid of a key tells
\* whether the handle stored under it is usable.
C14_CacheInfoReadOnly ==
    last.op = "info" =>
        /\ opens = last.opensBefore
        /\ _stage_cache = last.pre
        /\ DOMAIN last.info = DOMAIN _stage_cache
        /\ \A k \in DOMAIN last.pre :
              /\ k \in DOMAIN last.info
              /\ last.info[k].is_valid = (k \notin last.unusable)

\* get_cache_info that reported one usable and one unusable entry.
C14_Witness ==
    /\ last.op = "info"
    /\ last.unusable # {}
    /\ DOMAIN last.info \ last.unusable # {}
    /\ \A k \in last.unusable : ~last.info[k].is_valid

\* C15: an entry appears only through a load whose open returned a stage,
\* under the location of the loaded path; it disappears only through a
\* remove of its location, a clear, or a load of its location that found
\* its handle unusable; and the handle under a key changes only in a load
\* that found it unusable and opened the file again.
C15_EntryLifecycle ==
    \A k \in DOMAIN last.pre \cup DOMAIN _stage_cache :
        /\ (k \notin DOMAIN last.pre /\ k \in DOMAIN _stage_cache) =>
              /\ IsLoad
              /\ last.outcome = "ok"
              /\ k = LastLoc
              /\ _stage_cache[k] = last.stage
        /\ (k \in DOMAIN last.pre /\ k \notin DOMAIN _stage_cache) =>
              \/ last.op = "remove" /\ last.removed /\ k = LastLoc
              \/ last.op = "clear"
              \/ /\ IsLoad
                 /\ k = LastLoc
                 /\ last.rejection = ""
                 /\ last.entry = "unusable"
        /\ (/\ k \in DOMAIN last.pre
            /\ k \in DOMAIN _stage_cache
            /\ last.pre[k] # _stage_cache[k]) =>
              /\ IsLoad
              /\ k = LastLoc
              /\ last.entry = "unusable"
              /\ last.outcome = "ok"

\* A load that found the handle of its location unusable and put a new one
\* under the same key.
C15_Witness ==
    /\ IsLoad
    /\ last.entry = "unusable"
    /\ last.outcome = "ok"
    /\ DOMAIN _stage_cache = DOMAIN last.pre
    /\ last.pre[LastLoc] # _stage_cache[LastLoc]

\* C16 as stated: a load that finds the cached handle unusable returns a
\* freshly opened stage and no error, after one open, and the new stage has
\* replaced the old one in the cache.
C16_StaleAlwaysReopened ==
    (IsLoad /\ last.rejection = "" /\ last.entry = "unusable") =>
        /\ last.opened = 1
        /\ last.stage # NoStage
        /\ last.err = NoneMsg
        /\ LastLoc \in DOMAIN _stage_cache
        /\ _stage_cache[LastLoc] = last.stage
        /\ last.stage # last.pre[LastLoc]

\* C16 amended: a load that finds the cached handle unusable drops the
\* entry and makes one open; when the open returns a stage, that stage is
\* returned with no error and stands in the cache in place of the old one;
\* when the open fails, the call returns the error of a failed open and the
\* location is left without an entry.
C16_StaleReopenAttempted ==
    (IsLoad /\ last.rejection = "" /\ last.entry = "unusable") =>
        /\ last.opened = 1
        /\ last.pre[LastLoc] \notin HandlesOf(_stage_cache)
        /\ last.outcome = "ok" =>
              /\ last.stage # NoStage
              /\ last.usable
              /\ last.err = NoneMsg
              /\ LastLoc \in DOMAIN _stage_cache
              /\ _stage_cache[LastLoc] = last.stage
              /\ last.stage # last.pre[LastLoc]
        /\ last.outcome = "falsy" =>
              /\ last.stage = NoStage
              /\ last.err = Str("Failed to open USD stage: ", last.path)
              /\ last.left = "absent"
        /\ last.outcome = "raise" =>
              /\ last.stage = NoStage
              /\ last.err = Str("Error loading USD stage: ", EngineExcText)
              /\ last.left = "absent"

\* A load that found the cached handle unusable and whose open raised.
C16_Witness ==
    /\ IsLoad
    /\ last.rejection = ""
    /\ last.entry = "unusable"
    /\ last.outcome = "raise"
    /\ last.stage = NoStage

\* C17: load_stage holds no lock.  When a caller's store of line 53 found
\* under the key the stage another caller returned from the same load, both
\* callers asked the engine for the same location, they hold different
\* handles, the cache holds the later one, and the earlier one is in no
\* entry although its caller holds it.
C17_LaterStoreWins ==
    \A c, d \in Callers :
        (/\ c # d
         /\ pc[c] = "done"
         /\ pc[d] = "done"
         /\ frame[c].stage # NoStage
         /\ frame[c].opened = 1
         /\ frame[d].overwrote = frame[c].stage) =>
            /\ frame[d].opened = 1
            /\ frame[d].normalized_path = frame[c].normalized_path
            /\ frame[d].stage # NoStage
            /\ frame[d].stage # frame[c].stage
            /\ frame[d].normalized_path \in DOMAIN _stage_cache
            /\ _stage_cache[frame[d].normalized_path] = frame[d].stage
            /\ frame[c].stage \notin HandlesOf(_stage_cache)

\* Both callers loaded a.usda, both opened it, and the handle caller A
\* returned, still usable, is in no entry of the cache.
C17_Witness ==
    /\ pc["A"] = "done"
    /\ pc["B"] = "done"
    /\ frame["A"].opened = 1
    /\ frame["B"].opened = 1
    /\ frame["A"].normalized_path = Resolve(<<N_a_usda>>)
    /\ frame["B"].normalized_path = Resolve(<<N_a_usda>>)
    /\ frame["A"].stage # NoStage
    /\ frame["B"].stage # NoStage
    /\ frame["A"].stage # frame["B"].stage
    /\ frame["B"].overwrote = frame["A"].stage
    /\ Usable(frame["A"].stage)
    /\ frame["A"].stage \notin HandlesOf(_stage_cache)
    /\ _stage_cache[Resolve(<<N_a_usda>>)] = frame["B"].stage

\* The message validation gives for a rejection.
ValidationMessage(rejection, file_path) ==
    CASE rejection = "empty" -> Str("File path cannot be empty", << >>)
      [] rejection = "nonexistent" -> Str("File does not exist: ", file_path)
      [] rejection = "notfile" -> Str("Path is not a file: ", file_path)
      [] rejection = "unreadable" -> Str("File is not readable: ", file_path)
      [] rejection = "extension" ->
           Str("File does not have a valid USD extension: ", file_path)
      [] OTHER -> EmptyStr

C19_OneEntryPerLocation ==
    /\ \A k \in DOMAIN _stage_cache : k \in CanonPaths /\ PathResolve(k) = k
    /\ \A k1, k2 \in DOMAIN _stage_cache :
          PathResolve(k1) = PathResolve(k2) => k1 = k2
    /\ (IsLoad /\ last.stage # NoStage) =>
          /\ LastLoc \in DOMAIN _stage_cache
          /\ _stage_cache[LastLoc] = last.stage

\* Two spellings of one location loaded one after the other, each load
\* opening the file, and one entry in the cache.
C19_Witness ==
    /\ IsLoad
    /\ last.again = "loc"
    /\ last.prevOpened = 1
    /\ last.opened = 1
    /\ last.stage # NoStage
    /\ Cardinality(DOMAIN _stage_cache) = 1

\* C20: a load that finds no entry and returns a stage leaves one entry
\* more; a load, get_cached_stage or get_cache_info leaves every entry of
\* another location than its path's as it was, and drops the entry of its
\* own location only in a load that found the handle unusable.
C20_NoAutomaticEviction ==
    /\ (IsLoad /\ last.entry = "absent" /\ last.stage # NoStage) =>
          Cardinality(DOMAIN _stage_cache)
             = Cardinality(DOMAIN last.pre) + 1
    /\ last.op \in {"load", "get_cached", "info"} =>
          \A q \in DOMAIN last.pre :
              /\ (q # LastLoc \/ last.op = "info") =>
                    /\ q \in DOMAIN _stage_cache
                    /\ _stage_cache[q] = last.pre[q]
              /\ q \notin DOMAIN _stage_cache =>
                    /\ IsLoad
                    /\ last.rejection = ""
                    /\ last.entry = "unusable"

\* A load that added an entry while the entry of another location, its
\* handle unusable, stayed in the cache.
C20_Witness ==
    /\ IsLoad
    /\ last.entry = "absent"
    /\ last.stage # NoStage
    /\ \E q \in DOMAIN last.pre :
          /\ q # LastLoc
          /\ q \in DOMAIN _stage_cache
          /\ ~Usable(_stage_cache[q])

\* C27: validation comes before the cache lookup.  A load of a path that
\* fails validation while its location is cached with a usable stage
\* returns the validation error and no stage, opens nothing and leaves the
\* cache as it was: get_cached_stage still returns the stage and
\* get_cache_info still lists it.  A load drops the entry of its location
\* only after validation passed.
C27_ValidationBeforeLookup ==
    /\ (IsLoad /\ last.rejection # "" /\ last.entry = "usable") =>
          /\ last.stage = NoStage
          /\ last.err = ValidationMessage(last.rejection, last.path)
          /\ last.opened = 0
          /\ _stage_cache = last.pre
          /\ get_cached_stage(last.path) = last.pre[LastLoc]
          /\ LastLoc \in DOMAIN get_cache_info
    /\ (IsLoad /\ LastLoc \in DOMAIN last.pre
               /\ LastLoc \notin DOMAIN _stage_cache) =>
          last.rejection = ""

\* A load of a.usda, cached with a usable stage, after the file was deleted
\* or made unreadable.
C27_Witness ==
    /\ IsLoad
    /\ last.path = <<N_a_usda>>
    /\ last.rejection \in {"nonexistent", "unreadable"}
    /\ last.entry = "usable"
    /\ last.stage = NoStage
    /\ LastLoc \in DOMAIN _stage_cache

\* C29: remove_from_cache and get_cached_stage resolve the path and do not
\* validate it.  Whatever validation would say of the path, remove deletes
\* the entry of its location when there is one and returns whether there
\* was, and get_cached_stage returns the stored handle or None; neither
\* returns an error.
C29_NoValidationInRemoveAndGet ==
    /\ last.op = "remove" =>
          /\ last.removed = (LastLoc \in DOMAIN last.pre)
          /\ LastLoc \notin DOMAIN _stage_cache
          /\ last.err = NoneMsg
    /\ last.op = "get_cached" =>
          /\ last.stage = IF LastLoc \in DOMAIN last.pre
                          THEN last.pre[LastLoc] ELSE NoStage
          /\ last.err = NoneMsg
    /\ \A p \in RawPaths :
          (Rejection(p) # "" /\ Resolve(p) \in DOMAIN _stage_cache) =>
              /\ get_cached_stage(p) = _stage_cache[Resolve(p)]
              /\ remove_from_cache(p).removed
              /\ Resolve(p) \notin DOMAIN remove_from_cache(p).cache

\* A remove through a path that fails validation deleted an entry.
C29_Witness ==
    /\ last.op = "remove"
    /\ last.rejection # ""
    /\ last.removed
    /\ LastLoc \in DOMAIN last.pre
    /\ LastLoc \notin DOMAIN _stage_cache

\* The prims from the pseudo-root down to a prim.
RECURSIVE PathTo(_, _)
PathTo(tree, prim) ==
    IF tree[prim] = 0 THEN <<prim>> ELSE Append(PathTo(tree, tree[prim]), prim)

\* The depth of a prim below the pseudo-root, which has depth 0.
DepthOf(tree, prim) == Len(PathTo(tree, prim)) - 1

\* Prim a comes before prim b when the tree is walked parents first,
\* children in order.
Before(tree, a, b) ==
    LET pa == PathTo(tree, a)
        pb == PathTo(tree, b)
    IN  \/ Len(pa) < Len(pb) /\ SubSeq(pb, 1, Len(pa)) = pa
        \/ \E k \in 1..Len(pa) :
              /\ k <= Len(pb)
              /\ SubSeq(pa, 1, k - 1) = SubSeq(pb, 1, k - 1)
              /\ pa[k] < pb[k]

\* The lines of the text that name a prim.
PrimLines == SelectSeq(hier.text, LAMBDA l : l.prim # 0)

\* The prims of the tree within the depth limit.
Within(tree, max_depth) ==
    { i \in 1..Len(tree) : max_depth = -1 \/ DepthOf(tree, i) <= max_depth }

\* C24: for every tree and every depth limit >= 0 the text names exactly
\* the prims of depth <= max_depth, each once, parents before children and
\* children in order, each line indented by two spaces per level; with -1
\* it names every prim.
C24_HierarchyWithinDepth ==
    hier.called =>
        /\ { PrimLines[k].prim : k \in 1..Len(PrimLines) }
              = Within(hier.tree, hier.max_depth)
        /\ Len(PrimLines) = Cardinality(Within(hier.tree, hier.max_depth))
        /\ \A k \in 1..Len(PrimLines) :
              PrimLines[k].spaces = 2 * DepthOf(hier.tree, PrimLines[k].prim)
        /\ \A j, k \in 1..Len(PrimLines) :
              j < k => Before(hier.tree, PrimLines[j].prim, PrimLines[k].prim)

\* A tree of five prims with two branches, cut at depth 1: three prims are
\* printed, two are left out.
C24_Witness ==
    /\ hier.called
    /\ hier.tree = <<0, 1, 2, 1, 2>>
    /\ hier.max_depth = 1
    /\ Len(PrimLines) = 3
    /\ PrimLines[3].prim = 4

\* C25 as stated: below every prim at the depth limit that has children the
\* text has the line "... (N children - depth limit reached)", N the number
\* of its children.
C25_DepthLimitLine ==
    \A i \in 1..Len(hier.tree) :
        (/\ hier.called
         /\ hier.max_depth >= 0
         /\ DepthOf(hier.tree, i) = hier.max_depth
         /\ GetChildren(hier.tree, i) # << >>) =>
            \E k \in 1..(Len(hier.text) - 1) :
                /\ hier.text[k].prim = i
                /\ hier.text[k + 1].prim = 0
                /\ hier.text[k + 1].more = Len(GetChildren(hier.tree, i))

\* C21 as stated: every tool call returns a list of exactly one text
\* content block and never raises.
C21_OneTextBlock ==
    tool.name # "" =>
        /\ tool.kind = "return"
        /\ Len(tool.blocks) = 1
        /\ tool.blocks[1].type = "text"

\* The required arguments of a tool, in the order the tool looks for them.
RequiredArgs(name) ==
    CASE name = "inspect_prim" -> <<"file_path", "prim_path">>
      [] name = "find_prims_by_name" -> <<"file_path", "name_pattern">>
      [] OTHER -> <<"file_path">>

\* The first required argument a dictionary lacks, "" when it has all.
FirstMissing(name, arguments) ==
    LET required == RequiredArgs(name)
        lacking == { k \in 1..Len(required) : required[k] \notin DOMAIN arguments }
    IN  IF lacking = {} THEN ""
        ELSE required[CHOOSE k \in lacking : \A j \in lacking : k <= j]

\* C22: a tool call that lacks a required argument returns the one block
\* "Error: Missing required argument '<name>'" for the first argument it
\* lacks, file_path before prim_path and name_pattern; load_stage is not
\* called, nothing is opened and the cache is as it was.
C22_MissingArgument ==
    (tool.name # "" /\ FirstMissing(tool.name, tool.arguments) # "") =>
        /\ tool.kind = "return"
        /\ tool.blocks =
              <<[type |-> "text",
                 text |-> Str("Error: Missing required argument ",
                              FirstMissing(tool.name, tool.arguments)),
                 body |-> << >>]>>
        /\ ~tool.load.called
        /\ opens = tool.opensBefore
        /\ _stage_cache = tool.pre

\* inspect_prim called with neither file_path nor prim_path, after an
\* earlier call has put a stage in the cache: file_path is the one named.
C22_Witness ==
    /\ tool.name = "inspect_prim"
    /\ tool.arguments = EmptyCache
    /\ tool.kind = "return"
    /\ tool.blocks[1].text.arg = "file_path"
    /\ tool.pre # EmptyCache
    /\ _stage_cache = tool.pre

\* C23 as stated: a get_stage_hierarchy call of the server with a depth
\* limit >= 0 does not fail, and on a file that loads it returns the
\* hierarchy cut at that depth; with -1 it returns the whole hierarchy.
C23_DepthLimitApplied ==
    (tool.via = "server" /\ tool.name = "get_stage_hierarchy") =>
        /\ tool.kind = "return"
        /\ tool.load.called
        /\ tool.load.stage # NoStage =>
              tool.reply.body =
                  _format_hierarchy_text(
                      format_hierarchy_node(SceneTree, 1,
                                            tool.params["max_depth"], 0),
                      tool.params["max_depth"], 0)

\* What is wrong with a prim path, "" when nothing is: it is empty, it
\* does not start with "/", or it has one of < > " | ? *.
PrimRejection(prim_path) ==
    IF prim_path = << >> THEN "empty"
    ELSE IF prim_path[1] # "/" THEN "relative"
    ELSE IF CharsOf(prim_path) \cap {"<", ">", "\"", "|", "?", "*"} # {}
    THEN "character"
    ELSE ""

\* The inspect_prim call on record was given both arguments.
Inspects ==
    /\ tool.name = "inspect_prim"
    /\ FirstMissing(tool.name, tool.arguments) = ""

\* C26: inspect_prim validates the prim path before it loads.  For a prim
\* path that is empty, does not start with "/" or has an invalid character
\* the error is returned with no call of load_stage, no open and the cache
\* as it was; for a well-formed prim path that names no prim, on a file
\* that loads, "Prim not found at path" is returned after the load and the
\* stage is in the cache.
C26_PrimPathBeforeLoad ==
    /\ (Inspects /\ PrimRejection(tool.arguments["prim_path"]) # "") =>
          /\ tool.kind = "return"
          /\ tool.blocks[1].text.text = "Error inspecting prim: "
          /\ tool.blocks[1].text.arg.text \in
                { "Prim path cannot be empty", "Prim path must start with '/'",
                  "Prim path contains invalid character " }
          /\ ~tool.load.called
          /\ opens = tool.opensBefore
          /\ _stage_cache = tool.pre
    /\ (/\ Inspects
        /\ PrimRejection(tool.arguments["prim_path"]) = ""
        /\ tool.rejection = "") => tool.load.called
    /\ (/\ Inspects
        /\ PrimRejection(tool.arguments["prim_path"]) = ""
        /\ tool.load.stage # NoStage
        /\ \A i \in 1..Len(SceneTree) :
              GetPath(i) # tool.arguments["prim_path"]) =>
          /\ tool.blocks[1].text =
                Str("Error inspecting prim: ",
                    Str("Prim not found at path: ", tool.arguments["prim_path"]))
          /\ tool.loc \in DOMAIN _stage_cache
          /\ _stage_cache[tool.loc] = tool.load.stage

\* inspect_prim of "/?<" on a.usda, a file that would load, with an empty
\* cache: "<" is reported and nothing is opened.
C26_Witness ==
    /\ Inspects
    /\ tool.arguments["prim_path"] = <<"/", "?", "<">>
    /\ tool.arguments["file_path"] = <<N_a_usda>>
    /\ tool.rejection = ""
    /\ tool.blocks[1].text.arg.arg[1] = "<"
    /\ ~tool.load.called
    /\ _stage_cache = EmptyCache
    /\ opens = 0

C30_NoSessionNoCall ==
    /\ (client.method \in ToolNames /\ ~client.sessionBefore) =>
          /\ client.exc = [type |-> "RuntimeError",
                           text |-> "Not connected to server. Call connect() first."]
          /\ client.sent = client.sentBefore
          /\ ~client.session
    /\ (/\ client.method = "connect"
        /\ (~ScriptExists(client.args) \/ ~EndsWithPy(client.args))) =>
          /\ client.exc.type =
                IF ~ScriptExists(client.args) THEN "FileNotFoundError"
                ELSE "ValueError"
          /\ client.session = client.sessionBefore
    /\ ~client.session => client.sent = << >>

\* After a connect to a script that does not exist, get_stage_hierarchy
\* raised RuntimeError and nothing was sent.
C30_Witness ==
    /\ client.method = "get_stage_hierarchy"
    /\ client.server_script_path = S_gone_py
    /\ ~client.session
    /\ client.exc.type = "RuntimeError"
    /\ client.sent = << >>

====
